---- MODULE Spec2Model ----
(***************************************************************************)
(* Model of the token verification core (backend/app/utils/jwt_verify.py)  *)
(* and of the retrieval core (backend/app/services/rag_service.py).        *)
(*                                                                         *)
(* A token is a record of what PyJWT reads from it: whether its segments   *)
(* parse, the header's kid and alg, the key material under which its       *)
(* signature verifies, and the claims exp, iss, aud and sub.  A field that *)
(* is not in the token holds Absent.                                       *)
(***************************************************************************)
EXTENDS Integers, Sequences, FiniteSets, TLC

VARIABLES
    supabase_url,   \* SUPABASE_URL: "" when the environment does not set it
    jwks_cache,     \* the lru_cache(maxsize=1) entry of fetch_jwks
    provider,       \* which key set the provider publishes now
    firstFetched,   \* history: the key set of the first successful fetch
    pc,             \* "idle" | "received" | "done": the request being served
    request,        \* the request being served: entry point, header, token
    result,         \* what the entry point returned or raised
    fetchRec,       \* what fetch_jwks did during the request
    refusal,        \* history: the first 401 response sent (when tracked)
    embedding_model,\* _embedding_model: "None" or "loaded"
    points,         \* the collection of the vector index
    nextId,         \* the number of point ids generated so far
    ragOut,         \* the last retrieval call: its arguments and its outcome
    ck,             \* a call of chunk_text: its arguments, its locals, its outcome
    ld,             \* threads inside get_embedding_model and the global they share
    fj,             \* threads inside fetch_jwks
    cs,             \* a CSV chat session and the chat_with_csv calls in progress
    rt              \* a call of _call_ai_with_retry

authVars == <<supabase_url, jwks_cache, provider, firstFetched, pc, request,
              result, fetchRec, refusal>>

ragVars == <<embedding_model, points, nextId, ragOut>>

chunkVars == <<ck>>

concVars == <<ld, fj, cs, rt>>

vars == <<authVars, ragVars, chunkVars, concVars>>

----------------------------------------------------------------------------
(* Bounds and constants *)

\* The verifier's clock reads Now; a token's exp ranges over 0 .. Now + 1.
Now == 1

Absent == "<absent>"
NoReturn == "<raised>"

SUPABASE_JWT_AUD == "authenticated"
ProjectUrl == "https://project.supabase.co"

\* get_issuer(): the base url followed by /auth/v1
get_issuer(url) == IF url = ProjectUrl THEN "https://project.supabase.co/auth/v1"
                   ELSE "/auth/v1"

\* Two key sets the provider may publish; rotation replaces k1 by k2.
KeySetA == << [kid |-> "k1", alg |-> "RS256", mat |-> "m1"],
              [kid |-> "k3", alg |-> "EdDSA", mat |-> "m3"] >>
KeySetB == << [kid |-> "k2", alg |-> "ES256", mat |-> "m2"],
              [kid |-> "k3", alg |-> "EdDSA", mat |-> "m3"] >>
Published(p) == IF p = "A" THEN KeySetA ELSE KeySetB

NoJwks == [full |-> FALSE, jwks |-> << >>]

ExpValues == {[present |-> FALSE, v |-> 0]} \cup
             {[present |-> TRUE, v |-> n] : n \in 0 .. (Now + 1)}

Tokens == [wf : BOOLEAN,
           kid : {Absent, "k1", "k2", "k3"},
           alg : {Absent, "RS256", "PS256", "ES256", "EdDSA", "HS256", "none"},
           sig : {"m1", "m2", "m3", "nomatch"},
           exp : ExpValues,
           iss : {Absent, get_issuer(ProjectUrl), "https://evil.example/auth/v1"},
           aud : {Absent, SUPABASE_JWT_AUD, "anon"},
           sub : {Absent, "", "u1", "u2"}]

\* A token whose segments do not parse has no readable field.
Garbage == [wf |-> FALSE, kid |-> Absent, alg |-> Absent, sig |-> "nomatch",
            exp |-> [present |-> FALSE, v |-> 0], iss |-> Absent,
            aud |-> Absent, sub |-> Absent]

AllTokens == {t \in Tokens : t.wf} \cup {Garbage}

\* One well-formed token per way of failing, and the accepted one.
GoodToken == [wf |-> TRUE, kid |-> "k1", alg |-> "RS256", sig |-> "m1",
              exp |-> [present |-> TRUE, v |-> Now + 1],
              iss |-> get_issuer(ProjectUrl), aud |-> SUPABASE_JWT_AUD,
              sub |-> "u1"]
ProbeTokens == {Garbage, GoodToken,
                [GoodToken EXCEPT !.kid = "k2"],
                [GoodToken EXCEPT !.sig = "nomatch"],
                [GoodToken EXCEPT !.exp = [present |-> TRUE, v |-> 0]],
                [GoodToken EXCEPT !.iss = "https://evil.example/auth/v1"],
                [GoodToken EXCEPT !.aud = "anon"],
                [GoodToken EXCEPT !.sub = Absent]}

EntryPoints == {"verify_jwt", "get_current_user", "verify_bearer_or_401"}
Headers == {"bearer", "basic", "none"}

NoRequest == [entry |-> "none", header |-> "none", token |-> Garbage]
NoResult == [status |-> 0, detail |-> "", user_id |-> NoReturn]
NoFetch == [called |-> FALSE, cachedBefore |-> FALSE, succeededBefore |-> FALSE,
            requested |-> FALSE, ok |-> FALSE, jwks |-> << >>,
            key |-> [kty |-> "none", mat |-> "none"]]

----------------------------------------------------------------------------
(* fetch_jwks: the key set cache *)

\* The lru_cache wrapper: a hit returns the entry; a miss runs the body and
\* stores what it returns; an exception stores nothing.
\* fetch_jwks without the lru_cache decorator.
fetch_jwks_unmemoized(url, cache, net, body) ==
    IF url = ""
    THEN [ok |-> FALSE, jwks |-> << >>, cache |-> cache, requested |-> FALSE]
    ELSE IF net = "ok"
         THEN [ok |-> TRUE, jwks |-> body,
               cache |-> [full |-> TRUE, jwks |-> body], requested |-> TRUE]
         ELSE [ok |-> FALSE, jwks |-> << >>, cache |-> cache, requested |-> TRUE]

\* A cache whose entry is fetched again when the provider's set has changed.
fetch_jwks_refreshed(url, cache, net, body) ==
    IF cache.full /\ (cache.jwks = body \/ net # "ok")
    THEN [ok |-> TRUE, jwks |-> cache.jwks, cache |-> cache, requested |-> FALSE]
    ELSE fetch_jwks_unmemoized(url, cache, net, body)

fetch_jwks(url, cache, net, body) ==
    IF cache.full
    THEN [ok |-> TRUE, jwks |-> cache.jwks, cache |-> cache, requested |-> FALSE]
    ELSE IF url = ""
         \* get_jwks_url raises ValueError before any request
         THEN [ok |-> FALSE, jwks |-> << >>, cache |-> cache, requested |-> FALSE]
    ELSE IF net = "ok"
         THEN [ok |-> TRUE, jwks |-> body,
               cache |-> [full |-> TRUE, jwks |-> body], requested |-> TRUE]
         \* requests.get, raise_for_status or response.json raised
         ELSE [ok |-> FALSE, jwks |-> << >>, cache |-> cache, requested |-> TRUE]

----------------------------------------------------------------------------
(* get_signing_key: the key resolver *)

NoKey == [kty |-> "none", mat |-> "none"]

StartsWithRS(alg) == alg \in {"RS256", "RS384", "RS512"}
StartsWithES(alg) == alg \in {"ES256", "ES384", "ES512"}

\* The index of the first record of jwks whose kid is kid, 0 when none.
RECURSIVE FirstMatch(_, _, _)
FirstMatch(jwks, kid, i) ==
    IF i > Len(jwks) THEN 0
    ELSE IF jwks[i].kid = kid THEN i
    ELSE FirstMatch(jwks, kid, i + 1)

\* The branch without its elliptic-curve arm.
KeyFromRecord_rsa_only(rec) ==
    IF StartsWithRS(rec.alg) THEN [kty |-> "RSA", mat |-> rec.mat] ELSE NoKey

\* A resolver that builds an RSA key from any record it finds.
KeyFromRecord_any(rec) == [kty |-> "RSA", mat |-> rec.mat]

\* The branch on the record's alg tag.
KeyFromRecord(rec) ==
    IF StartsWithRS(rec.alg) THEN [kty |-> "RSA", mat |-> rec.mat]
    ELSE IF StartsWithES(rec.alg) THEN [kty |-> "EC", mat |-> rec.mat]
    ELSE NoKey

\* Returns the key (NoKey for None), the cache afterwards and what the fetch did.
get_signing_key(t, url, cache, net, body) ==
    IF ~t.wf \/ t.kid = Absent \/ t.kid = ""
    THEN [key |-> NoKey, cache |-> cache, fetch |-> NoFetch]
    ELSE LET f == fetch_jwks(url, cache, net, body)
             i == FirstMatch(f.jwks, t.kid, 1)
             key == IF ~f.ok \/ i = 0 THEN NoKey ELSE KeyFromRecord(f.jwks[i])
             rec == [called |-> TRUE, cachedBefore |-> cache.full,
                     succeededBefore |-> FALSE,
                     requested |-> f.requested, ok |-> f.ok, jwks |-> f.jwks,
                     key |-> key]
         IN  [key |-> key, cache |-> f.cache, fetch |-> rec]

----------------------------------------------------------------------------
(* jwt.decode as verify_jwt calls it *)

\* The exception jwt.decode raises, "" when it returns the payload.
\* algorithms is [the header's alg], so the allow-list never rejects a
\* header that has an alg; the key object then has to suit the algorithm.
\* The algorithms whose prepare_key takes an RSA public key object, and
\* those that take an elliptic-curve one; every other algorithm raises on
\* such a key before any signature is looked at.
RSAFamily == {"RS256", "RS384", "RS512", "PS256", "PS384", "PS512"}
ECFamily == {"ES256", "ES256K", "ES384", "ES521", "ES512"}

\* A decode that hands the key to whichever algorithm the header names.
KeySuits_any(alg, key) == TRUE

KeySuits(alg, key) ==
    \/ alg \in RSAFamily /\ key.kty = "RSA"
    \/ alg \in ECFamily /\ key.kty = "EC"

\* verify_signature switched off.
SignatureCheck_unverified(t, key) ==
    IF t.alg = Absent THEN "InvalidAlgorithmError"
    ELSE IF ~KeySuits(t.alg, key) THEN "Exception"
    ELSE ""

SignatureCheck(t, key) ==
    IF t.alg = Absent THEN "InvalidAlgorithmError"
    ELSE IF ~KeySuits(t.alg, key) THEN "Exception"
    ELSE IF t.sig # key.mat THEN "InvalidSignatureError"
    ELSE ""

ExpiryCheck(t) ==
    IF t.exp.present /\ t.exp.v <= Now THEN "ExpiredSignatureError" ELSE ""

\* The claims validated with the issuer and the audience before the expiry.
ClaimsCheck_expiry_last(t, issuer, audience) ==
    IF t.iss = Absent THEN "MissingRequiredClaimError"
    ELSE IF t.iss # issuer THEN "InvalidIssuerError"
    ELSE IF t.aud = Absent THEN "MissingRequiredClaimError"
    ELSE IF t.aud # audience THEN "InvalidAudienceError"
    ELSE ExpiryCheck(t)

ClaimsCheck(t, issuer, audience) ==
    IF ExpiryCheck(t) # "" THEN ExpiryCheck(t)
    ELSE IF t.iss = Absent THEN "MissingRequiredClaimError"
    ELSE IF t.iss # issuer THEN "InvalidIssuerError"
    ELSE IF t.aud = Absent THEN "MissingRequiredClaimError"
    ELSE IF t.aud # audience THEN "InvalidAudienceError"
    ELSE ""

jwt_decode(t, key, issuer, audience) ==
    IF SignatureCheck(t, key) # "" THEN SignatureCheck(t, key)
    ELSE ClaimsCheck(t, issuer, audience)

----------------------------------------------------------------------------
(* verify_jwt *)

D_NotConfigured == "Supabase not configured. Please set SUPABASE_URL in environment."
D_KeyNotFound == "Unable to verify token: signing key not found"
D_MissingSub == "Invalid token: missing 'sub' claim"
D_Expired == "Token has expired"
D_Issuer == "Invalid token issuer"
D_Audience == "Invalid token audience"
D_Invalid == "Invalid token"
D_Failed == "Token verification failed"
D_NoUser == "Invalid token: missing user identifier"
D_NoHeader == "Missing Authorization header"
D_BadHeader == "Invalid Authorization header format"

Raise(status, detail) == [status |-> status, detail |-> detail, user_id |-> NoReturn]
Return(sub) == [status |-> 200, detail |-> "", user_id |-> sub]

\* The except clauses of verify_jwt, in order.  An HTTPException raised in
\* the try block is no PyJWT error, so the last clause takes it.
ExceptClauses(exc, detail) ==
    IF exc = "ExpiredSignatureError" THEN Raise(401, D_Expired)
    ELSE IF exc = "InvalidIssuerError" THEN Raise(401, D_Issuer)
    ELSE IF exc = "InvalidAudienceError" THEN Raise(401, D_Audience)
    ELSE IF exc \in {"InvalidSignatureError", "InvalidAlgorithmError",
                     "MissingRequiredClaimError", "DecodeError"}
         THEN Raise(401, D_Invalid)
    ELSE Raise(401, D_Failed)

\* The body of the try block once the key is resolved.
TryBody(t, key, url) ==
    IF key = NoKey THEN ExceptClauses("HTTPException", D_KeyNotFound)
    ELSE LET exc == jwt_decode(t, key, get_issuer(url), SUPABASE_JWT_AUD)
         IN  IF exc # "" THEN ExceptClauses(exc, "")
             ELSE IF t.sub = Absent
                  THEN ExceptClauses("HTTPException", D_MissingSub)
             ELSE Return(t.sub)

\* Returns the outcome, the cache afterwards and what the fetch did.
verify_jwt(t, url, cache, net, body) ==
    IF url = ""
    THEN [out |-> Raise(500, D_NotConfigured), cache |-> cache, fetch |-> NoFetch]
    ELSE LET k == get_signing_key(t, url, cache, net, body)
         IN  [out |-> TryBody(t, k.key, url), cache |-> k.cache, fetch |-> k.fetch]

----------------------------------------------------------------------------
(* The entry points that return an identity *)

get_current_user(v) ==
    IF v.out.status # 200 THEN v
    ELSE IF v.out.user_id = Absent \/ v.out.user_id = ""
         THEN [v EXCEPT !.out = Raise(401, D_NoUser)]
    ELSE v

verify_bearer_or_401(header, v, cache) ==
    IF header = "none"
    THEN [out |-> Raise(401, D_NoHeader), cache |-> cache, fetch |-> NoFetch]
    ELSE IF header # "bearer"
    THEN [out |-> Raise(401, D_BadHeader), cache |-> cache, fetch |-> NoFetch]
    ELSE v

Serve(req, url, cache, net, body) ==
    LET v == verify_jwt(req.token, url, cache, net, body)
    IN  IF req.entry = "verify_jwt" THEN v
        ELSE IF req.entry = "get_current_user" THEN get_current_user(v)
        ELSE verify_bearer_or_401(req.header, v, cache)

----------------------------------------------------------------------------
(* chunk_text *)

CHUNK_SIZE == 500
CHUNK_OVERLAP == 50

\* The loop of chunk_text is followed for at most MaxIter iterations.
MaxIter == 8

Whitespace == {" ", "\n", "\t"}
Separators == {" ", "\n", "\t", ".", ","}

SetMax(S) == CHOOSE x \in S : \A y \in S : y <= x

\* Python's index clamping for a slice bound.
Clamp(i, n) == IF i < 0 THEN (IF n + i < 0 THEN 0 ELSE n + i)
               ELSE IF i > n THEN n ELSE i

\* text[s:e]
Slice(text, s, e) ==
    LET lo == Clamp(s, Len(text))
        hi == Clamp(e, Len(text))
    IN  IF lo >= hi THEN << >> ELSE SubSeq(text, lo + 1, hi)

\* chunk.rfind(c): the highest 0-based index of c, -1 when there is none
RFind(chunk, c) ==
    LET I == {i \in 1 .. Len(chunk) : chunk[i] = c}
    IN  IF I = {} THEN -1 ELSE SetMax(I) - 1

\* chunk.strip()
Strip(chunk) ==
    LET n == Len(chunk)
        IsWs(i) == chunk[i] \in Whitespace
        lo == CHOOSE i \in 1 .. (n + 1) :
                 (i = n + 1 \/ ~IsWs(i)) /\ \A j \in 1 .. (i - 1) : IsWs(j)
        hi == CHOOSE i \in 0 .. n :
                 (i = 0 \/ ~IsWs(i)) /\ \A j \in (i + 1) .. n : IsWs(j)
    IN  IF lo > hi THEN << >> ELSE SubSeq(chunk, lo, hi)

\* text[i]: a negative i counts from the end; IndexError outside
\* -len(text) .. len(text) - 1 (the loop reads it only with i < len(text)).
CharAt(text, i) ==
    IF i >= 0 THEN [ok |-> TRUE, c |-> text[i + 1]]
    ELSE IF Len(text) + i >= 0 THEN [ok |-> TRUE, c |-> text[Len(text) + i + 1]]
    ELSE [ok |-> FALSE, c |-> ""]

\* One pass through the body of the while loop, entered with start:
\* the chunk it appends and the start it leaves, or the IndexError of text[end].
ChunkIteration(text, chunk_size, overlap, start) ==
    LET end0 == start + chunk_size
        chunk0 == Slice(text, start, end0)
        at == IF end0 < Len(text) THEN CharAt(text, end0) ELSE [ok |-> TRUE, c |-> " "]
        midword == end0 < Len(text) /\ at.c \notin Separators
        last_space == RFind(chunk0, " ")
        back == midword /\ last_space > 0
        end == IF back THEN start + last_space ELSE end0
        chunk == IF back THEN Slice(text, start, end) ELSE chunk0
    IN  [raised |-> ~at.ok, chunk |-> Strip(chunk), start |-> end - overlap]

\* The while loop: done is FALSE when MaxIter iterations did not end it,
\* raised is TRUE when an iteration raised IndexError.
RECURSIVE ChunkLoop(_, _, _, _, _, _)
ChunkLoop(text, chunk_size, overlap, start, chunks, fuel) ==
    IF ~(start < Len(text))
    THEN [done |-> TRUE, raised |-> FALSE, chunks |-> chunks]
    ELSE IF fuel = 0 THEN [done |-> FALSE, raised |-> FALSE, chunks |-> chunks]
    ELSE LET it == ChunkIteration(text, chunk_size, overlap, start)
         IN  IF it.raised THEN [done |-> TRUE, raised |-> TRUE, chunks |-> chunks]
             ELSE ChunkLoop(text, chunk_size, overlap, it.start,
                            Append(chunks, it.chunk), fuel - 1)

\* A text taken for short only when it is strictly shorter than chunk_size.
IsShort_strict(text, chunk_size) == Len(text) < chunk_size

\* The test of the early return.
IsShort(text, chunk_size) == Len(text) <= chunk_size

chunk_text(text, chunk_size, overlap) ==
    IF IsShort(text, chunk_size)
    THEN [done |-> TRUE, raised |-> FALSE, chunks |-> <<text>>]
    ELSE ChunkLoop(text, chunk_size, overlap, 0, << >>, MaxIter)

----------------------------------------------------------------------------
(* The embedding provider *)

\* A loader whose failure is swallowed: the caller goes on without a model.
get_embedding_model_swallowed(model, load) ==
    IF model # "None" THEN [ok |-> TRUE, model |-> model]
    ELSE IF load = "ok" THEN [ok |-> TRUE, model |-> "loaded"]
    ELSE [ok |-> TRUE, model |-> "None"]

\* get_embedding_model: loads on first use; a failed load raises and leaves
\* _embedding_model None.
get_embedding_model(model, load) ==
    IF model # "None" THEN [ok |-> TRUE, model |-> model]
    ELSE IF load = "ok" THEN [ok |-> TRUE, model |-> "loaded"]
    ELSE [ok |-> FALSE, model |-> "None"]

\* What the embedding stage meets: "fail" when the model must be loaded and
\* the load fails.
EmbedOutcome(model, load) == IF model = "None" /\ load # "ok" THEN "fail" ELSE "ok"

\* model.encode: a fixed function of the text (its length and first character
\* stand for the 384 floats).
Encode(text) == [len |-> Len(text), head |-> IF Len(text) = 0 THEN "" ELSE text[1]]

\* The similarity of two vectors: the number of features they share.
Score(v, w) == (IF v.len = w.len THEN 1 ELSE 0) + (IF v.head = w.head THEN 1 ELSE 0)

----------------------------------------------------------------------------
(* The vector store gateway: upsert_document, search_similar, delete_user_vectors *)

\* Bounds: ids generated in a run, and the largest limit a search passes.
MaxIds == 2
MaxLimit == 2

Users == {"u1", "u2"}
Files == {"d1", "d2"}
Texts == {<<"a">>, <<"b", " ">>}
Queries == {<<"a">>, <<"b">>}
ReservedKeys == {"user_id", "file_id", "chunk_index", "text"}

EmptyMap == [k \in {} |-> ""]
Metadatas == {EmptyMap,
              [k \in {"filename"} |-> "notes.txt"],
              [k \in {"user_id"} |-> "u1"],
              [user_id |-> "u2", file_id |-> "d9", chunk_index |-> 9,
               text |-> <<"z">>]}

\* {**a, **b}: b's entries replace a's
DictMerge(a, b) ==
    [k \in DOMAIN a \cup DOMAIN b |-> IF k \in DOMAIN b THEN b[k] ELSE a[k]]

\* The payload literal of upsert_document.
Payload(user_id, file_id, i, chunk, metadata) ==
    DictMerge([user_id |-> user_id, file_id |-> file_id, chunk_index |-> i,
               text |-> chunk], metadata)

\* Points whose ids are their position in the document, the same on every call.
BuildPoints_by_index(user_id, file_id, chunks, metadata, firstId) ==
    {[id |-> 1 + i,
      vector |-> Encode(chunks[i + 1]),
      payload |-> Payload(user_id, file_id, i, chunks[i + 1], metadata),
      call |-> [user_id |-> user_id, file_id |-> file_id, chunk_index |-> i,
                text |-> chunks[i + 1]]] : i \in 0 .. (Len(chunks) - 1)}

\* Points whose chunk_index counts from 1.
BuildPoints_one_based(user_id, file_id, chunks, metadata, firstId) ==
    {[id |-> firstId + i,
      vector |-> Encode(chunks[i + 1]),
      payload |-> Payload(user_id, file_id, i + 1, chunks[i + 1], metadata),
      call |-> [user_id |-> user_id, file_id |-> file_id, chunk_index |-> i + 1,
                text |-> chunks[i + 1]]] : i \in 0 .. (Len(chunks) - 1)}

\* The points upsert_document builds: one per chunk, each under a fresh id.
\* call is a history field: the arguments of the call that built the point.
BuildPoints(user_id, file_id, chunks, metadata, firstId) ==
    {[id |-> firstId + i,
      vector |-> Encode(chunks[i + 1]),
      payload |-> Payload(user_id, file_id, i, chunks[i + 1], metadata),
      call |-> [user_id |-> user_id, file_id |-> file_id, chunk_index |-> i,
                text |-> chunks[i + 1]]] : i \in 0 .. (Len(chunks) - 1)}

\* A search that passes no filter.
SearchFilter_none(p, user_id) == TRUE

\* The filter of search_similar: must user_id == the caller's user_id.
SearchFilter(p, user_id) == p.payload["user_id"] = user_id

\* The filter of delete_user_vectors; "if file_id:" is false for None and "".
DeleteFilter(p, user_id, file_id) ==
    /\ p.payload["user_id"] = user_id
    /\ (file_id # Absent /\ file_id # "") => p.payload["file_id"] = file_id

\* The index's answer to a filtered search: the limit best-scoring points
\* that pass the filter; which of several equally scored points it keeps is
\* the index's choice.
TopSets(cands, qv, limit) ==
    LET k == IF Cardinality(cands) < limit THEN Cardinality(cands) ELSE limit
    IN  {S \in SUBSET cands :
            /\ Cardinality(S) = k
            /\ \A a \in S, b \in cands \ S : Score(qv, a.vector) >= Score(qv, b.vector)}

Before(a, b, qv) ==
    \/ Score(qv, a.vector) > Score(qv, b.vector)
    \/ Score(qv, a.vector) = Score(qv, b.vector) /\ a.id < b.id

RECURSIVE Ranked(_, _)
Ranked(S, qv) ==
    IF S = {} THEN << >>
    ELSE LET top == CHOOSE a \in S : \A b \in S \ {a} : Before(a, b, qv)
         IN  <<top>> \o Ranked(S \ {top}, qv)

\* One formatted result of search_similar.
Format(p, qv) ==
    [text |-> p.payload["text"],
     score |-> Score(qv, p.vector),
     file_id |-> p.payload["file_id"],
     chunk_index |-> p.payload["chunk_index"],
     metadata |-> [k \in DOMAIN p.payload \ ReservedKeys |-> p.payload[k]]]

\* The record of a call: its arguments, what the caller got (status
\* "returned" or "raised", error naming the exception raised), and history:
\* the collection before the call, the outcome of the embedding stage
\* and the index's answer ("none" when the stage was not reached).
NoCall == [op |-> "none", user_id |-> "", file_id |-> "", text |-> << >>,
           status |-> "none", error |-> "", chunk_count |-> 0, written |-> {},
           hits |-> << >>, results |-> << >>, flag |-> FALSE,
           before |-> {}, embed |-> "none", net |-> "none"]

\* upsert_document: chunk, embed, build the points, write them; any exception
\* is logged and re-raised as it is.  net is the index's answer: "ok", "error"
\* (nothing written) or "late_error" (the write was applied and the call
\* still failed).
upsert_document(user_id, file_id, text, metadata, model, pts, next, load, net) ==
    LET c == chunk_text(text, CHUNK_SIZE, CHUNK_OVERLAP)
        m == get_embedding_model(model, load)
        new == BuildPoints(user_id, file_id, c.chunks, metadata, next + 1)
        out == [NoCall EXCEPT !.op = "upsert", !.user_id = user_id,
                              !.file_id = file_id, !.text = text,
                              !.before = pts]
    IN  IF c.raised
        THEN [model |-> model, points |-> pts, next |-> next,
              out |-> [out EXCEPT !.status = "raised", !.error = "IndexError"]]
        ELSE IF ~m.ok
        THEN [model |-> m.model, points |-> pts, next |-> next,
              out |-> [out EXCEPT !.status = "raised",
                                  !.error = "ModelLoadError",
                                  !.embed = EmbedOutcome(model, load)]]
        ELSE IF net = "ok"
        THEN [model |-> m.model, points |-> pts \cup new,
              next |-> next + Len(c.chunks),
              out |-> [out EXCEPT !.status = "returned",
                                  !.chunk_count = Len(c.chunks),
                                  !.written = {p.id : p \in new},
                                  !.embed = EmbedOutcome(model, load),
                                  !.net = net]]
        ELSE [model |-> m.model,
              points |-> IF net = "late_error" THEN pts \cup new ELSE pts,
              next |-> next + Len(c.chunks),
              out |-> [out EXCEPT !.status = "raised",
                                  !.error = "StoreError",
                                  !.written = IF net = "late_error"
                                              THEN {p.id : p \in new} ELSE {},
                                  !.embed = EmbedOutcome(model, load),
                                  !.net = net]]

\* search_similar: embed the query, search with the user_id filter, format;
\* any exception is logged and re-raised.  kept is the set of points the
\* index answers with.
search_similar(user_id, query, model, pts, load, net, kept) ==
    LET m == get_embedding_model(model, load)
        qv == Encode(query)
        hits == Ranked(kept, qv)
        out == [NoCall EXCEPT !.op = "search", !.user_id = user_id,
                              !.text = query, !.before = pts,
                              !.embed = EmbedOutcome(model, load)]
    IN  IF ~m.ok
        THEN [model |-> m.model,
              out |-> [out EXCEPT !.status = "raised", !.error = "ModelLoadError"]]
        ELSE IF net # "ok"
        THEN [model |-> m.model,
              out |-> [out EXCEPT !.status = "raised", !.error = "StoreError",
                                  !.net = net]]
        ELSE [model |-> m.model,
              out |-> [out EXCEPT !.status = "returned", !.hits = hits,
                                  !.net = net,
                                  !.results = [i \in 1 .. Len(hits) |->
                                                  Format(hits[i], qv)]]]

\* delete_user_vectors: delete by filter; a failure is logged and False returned.
delete_user_vectors(user_id, file_id, pts, net) ==
    LET out == [NoCall EXCEPT !.op = "delete", !.user_id = user_id,
                              !.file_id = file_id, !.status = "returned",
                              !.before = pts, !.net = net]
        gone == {p \in pts : DeleteFilter(p, user_id, file_id)}
    IN  IF net = "ok"
        THEN [points |-> pts \ gone,
              out |-> [out EXCEPT !.flag = TRUE, !.written = {p.id : p \in gone}]]
        ELSE [points |-> pts, out |-> [out EXCEPT !.flag = FALSE]]

----------------------------------------------------------------------------
(* The process *)

RagInit ==
    /\ embedding_model = "None"
    /\ points = {}
    /\ nextId = 0
    /\ ragOut = NoCall

AuthInit ==
    /\ supabase_url \in {"", ProjectUrl}
    /\ jwks_cache = NoJwks
    /\ provider = "A"
    /\ firstFetched = NoJwks
    /\ pc = "idle"
    /\ request = NoRequest
    /\ result = NoResult
    /\ fetchRec = NoFetch
    /\ refusal = NoResult

\* No call of chunk_text is being followed.
NoChunk == [pc |-> "none", text |-> << >>, chunk_size |-> 0, overlap |-> 0,
            start |-> 0, chunks |-> << >>, iters |-> 0]

ChunkIdle == ck = NoChunk

\* Bound: the threads (or tasks) that may be inside one function at a time.
NThreads == 3
Threads == 1 .. NThreads

\* No thread has called get_embedding_model; the global is None (0).
NoLoad == [global |-> 0,
           pc |-> [t \in Threads |-> "idle"],
           local |-> [t \in Threads |-> 0],
           got |-> [t \in Threads |-> 0],
           after |-> [t \in Threads |-> FALSE],
           failed |-> FALSE]

\* No thread has called fetch_jwks.
NoFetchers == [pc |-> [t \in Threads |-> "idle"],
               local |-> [t \in Threads |-> << >>],
               got |-> [t \in Threads |-> << >>],
               hit |-> [t \in Threads |-> FALSE],
               requested |-> [t \in Threads |-> FALSE],
               late |-> [t \in Threads |-> FALSE]]

\* csv_sessions is empty and no chat_with_csv call is in progress.
NoSessions == [exists |-> FALSE, history |-> << >>,
               pc |-> [t \in Threads |-> "idle"],
               attempt |-> [t \in Threads |-> 0],
               calls |-> 0]

\* _call_ai_with_retry has not been called.
NoRetry == [pc |-> "idle", client |-> FALSE, attempt |-> 0, calls |-> 0,
            log |-> << >>, slept |-> << >>, out |-> "<none>"]

ConcIdle == ld = NoLoad /\ fj = NoFetchers /\ cs = NoSessions /\ rt = NoRetry

Init == AuthInit /\ RagInit /\ ChunkIdle /\ ConcIdle

\* A request arrives.  Only verify_bearer_or_401 reads the header itself.
Receive(T) ==
    /\ pc = "idle"
    /\ \E e \in EntryPoints, t \in T :
          \E h \in (IF e = "verify_bearer_or_401" /\ t = Garbage
                    THEN Headers ELSE {"bearer"}) :
              request' = [entry |-> e, header |-> h, token |-> t]
    /\ pc' = "received"
    /\ UNCHANGED <<supabase_url, jwks_cache, provider, firstFetched, result,
                   fetchRec, refusal>>
    /\ UNCHANGED <<ragVars, chunkVars, concVars>>

\* The entry point runs to its return or raise; net is what the key endpoint
\* answers if it is asked.
Verify(track) ==
    /\ pc = "received"
    /\ \E net \in {"ok", "error"} :
          LET v == Serve(request, supabase_url, jwks_cache, net, Published(provider))
          IN  /\ result' = v.out
              /\ jwks_cache' = v.cache
              /\ fetchRec' = [v.fetch EXCEPT !.succeededBefore = firstFetched.full]
              /\ firstFetched' = IF ~firstFetched.full /\ v.fetch.called /\ v.fetch.ok
                                 THEN [full |-> TRUE, jwks |-> v.fetch.jwks]
                                 ELSE firstFetched
              /\ refusal' = IF track /\ v.out.status = 401 /\ refusal.status = 0
                               /\ request.header = "bearer"
                            THEN v.out ELSE refusal
    /\ pc' = "done"
    /\ UNCHANGED <<supabase_url, provider, request>>
    /\ UNCHANGED <<ragVars, chunkVars, concVars>>

\* The response is sent; the process waits for the next request.
Respond ==
    /\ pc = "done"
    /\ pc' = "idle"
    /\ request' = NoRequest
    /\ result' = NoResult
    /\ fetchRec' = NoFetch
    /\ UNCHANGED <<supabase_url, jwks_cache, provider, firstFetched, refusal>>
    /\ UNCHANGED <<ragVars, chunkVars, concVars>>

\* The provider rotates its keys.
Rotate ==
    /\ pc = "idle"
    /\ provider = "A"
    /\ provider' = "B"
    /\ UNCHANGED <<supabase_url, jwks_cache, firstFetched, pc, request, result,
                   fetchRec, refusal>>
    /\ UNCHANGED <<ragVars, chunkVars, concVars>>

Next ==
    \/ Receive(AllTokens)
    \/ Verify(FALSE)
    \/ Respond
    \/ Rotate

Spec == Init /\ [][Next]_vars

NextProbe ==
    \/ Receive(ProbeTokens)
    \/ Verify(TRUE)
    \/ Respond
    \/ Rotate

SpecProbe == Init /\ [][NextProbe]_vars

----------------------------------------------------------------------------
(* The retrieval calls *)

LoadOutcomes == IF embedding_model = "None" THEN {"ok", "fail"} ELSE {"ok"}

\* A call of upsert_document with arguments from U, F, T and M; at most cap
\* point ids are generated in a run.
Upsert(U, F, T, M, cap) ==
    /\ ragOut = NoCall
    /\ \E u \in U, f \in F, text \in T, md \in M :
       \E load \in LoadOutcomes, net \in {"ok", "error", "late_error"} :
          LET c == chunk_text(text, CHUNK_SIZE, CHUNK_OVERLAP)
              r == upsert_document(u, f, text, md, embedding_model, points,
                                   nextId, load, net)
          IN  /\ c.done
              /\ nextId + Len(c.chunks) <= cap
              /\ embedding_model' = r.model
              /\ points' = r.points
              /\ nextId' = r.next
              /\ ragOut' = r.out
    /\ UNCHANGED <<authVars, chunkVars, concVars>>

Search ==
    /\ ragOut = NoCall
    /\ \E u \in Users, q \in Queries, limit \in 1 .. MaxLimit :
       \E load \in LoadOutcomes, net \in {"ok", "error"} :
       \E kept \in TopSets({p \in points : SearchFilter(p, u)}, Encode(q), limit) :
          LET r == search_similar(u, q, embedding_model, points, load, net, kept)
          IN  /\ embedding_model' = r.model
              /\ ragOut' = r.out
    /\ UNCHANGED <<points, nextId>>
    /\ UNCHANGED <<authVars, chunkVars, concVars>>

Delete ==
    /\ ragOut = NoCall
    /\ \E u \in Users, f \in Files \cup {Absent, ""}, net \in {"ok", "error"} :
          LET r == delete_user_vectors(u, f, points, net)
          IN  /\ points' = r.points
              /\ ragOut' = r.out
    /\ UNCHANGED <<embedding_model, nextId>>
    /\ UNCHANGED <<authVars, chunkVars, concVars>>

\* The caller has the outcome; the next call may start.
Resume ==
    /\ ragOut # NoCall
    /\ ragOut' = NoCall
    /\ UNCHANGED <<embedding_model, points, nextId>>
    /\ UNCHANGED <<authVars, chunkVars, concVars>>

NextRag ==
    \/ Upsert(Users, Files, Texts, Metadatas, MaxIds)
    \/ Search
    \/ Delete
    \/ Resume

InitRag == Init /\ supabase_url = ProjectUrl

SpecRag == InitRag /\ [][NextRag]_vars

----------------------------------------------------------------------------
(* Indexing a long document, then searching *)

\* Bounds: the length of the document, and the ids generated in a run.
DocLen == 1200
DocIds == 6

\* The document whose every gap-th character is a space (none when gap = 0).
Doc(gap) == [i \in 1 .. DocLen |-> IF gap > 0 /\ i % gap = 0 THEN " " ELSE "a"]

Docs == {Doc(gap) : gap \in {0, 8, 51, 300}}

NextDoc ==
    \/ Upsert(Users, {"d1"}, Docs, {EmptyMap}, DocIds)
    \/ Search
    \/ Resume

SpecDoc == InitRag /\ [][NextDoc]_vars

----------------------------------------------------------------------------
(* A call of chunk_text, followed one loop iteration at a time *)

\* Bounds: the longest text, and the largest chunk_size and overlap passed.
MaxLen == 5
MaxSize == 3

Alphabet == {"a", " ", "."}
ChunkTexts == UNION {[1 .. n -> Alphabet] : n \in 0 .. MaxLen}

\* chunk_text(text, chunk_size, overlap) has been called.
ChunkCalled ==
    /\ \E text \in ChunkTexts, chunk_size \in 1 .. MaxSize, overlap \in 0 .. MaxSize :
          ck = [NoChunk EXCEPT !.pc = "called", !.text = text,
                               !.chunk_size = chunk_size, !.overlap = overlap]

InitChunk ==
    AuthInit /\ supabase_url = ProjectUrl /\ RagInit /\ ChunkCalled /\ ConcIdle

\* The early return, or chunks = [] and start = 0.
ChunkEnter ==
    /\ ck.pc = "called"
    /\ ck' = IF IsShort(ck.text, ck.chunk_size)
             THEN [ck EXCEPT !.pc = "returned", !.chunks = <<ck.text>>]
             ELSE [ck EXCEPT !.pc = "loop", !.start = 0, !.chunks = << >>]
    /\ UNCHANGED <<authVars, ragVars, concVars>>

\* One iteration of the while loop.
ChunkIterate ==
    /\ ck.pc = "loop"
    /\ ck.start < Len(ck.text)
    /\ ck.iters < MaxIter
    /\ LET it == ChunkIteration(ck.text, ck.chunk_size, ck.overlap, ck.start)
       IN  ck' = IF it.raised THEN [ck EXCEPT !.pc = "raised"]
                 ELSE [ck EXCEPT !.chunks = Append(@, it.chunk),
                                 !.start = it.start, !.iters = @ + 1]
    /\ UNCHANGED <<authVars, ragVars, concVars>>

\* The loop condition fails: return chunks.
ChunkReturn ==
    /\ ck.pc = "loop"
    /\ ~(ck.start < Len(ck.text))
    /\ ck' = [ck EXCEPT !.pc = "returned"]
    /\ UNCHANGED <<authVars, ragVars, concVars>>

NextChunk == ChunkEnter \/ ChunkIterate \/ ChunkReturn

SpecChunk == InitChunk /\ [][NextChunk]_vars

----------------------------------------------------------------------------
(* get_embedding_model called from several threads *)

\* Each thread makes one call; the instance a thread loads is named by the
\* thread.  after is history: the call began after a load had failed.
LoadCall(t) ==
    /\ ld.pc[t] = "idle"
    /\ ld' = [ld EXCEPT !.pc[t] = "test", !.after[t] = ld.failed]
    /\ UNCHANGED <<authVars, ragVars, chunkVars, fj, cs, rt>>

\* if _embedding_model is None
LoadTest(t) ==
    /\ ld.pc[t] = "test"
    /\ ld' = [ld EXCEPT !.pc[t] = IF ld.global = 0 THEN "load" ELSE "return"]
    /\ UNCHANGED <<authVars, ragVars, chunkVars, fj, cs, rt>>

\* SentenceTransformer(EMBEDDING_MODEL_NAME): a new instance, or an exception
\* that is logged and raised.
LoadModel(t) ==
    /\ ld.pc[t] = "load"
    /\ \E outcome \in {"ok", "fail"} :
          ld' = IF outcome = "ok"
                THEN [ld EXCEPT !.pc[t] = "store", !.local[t] = t]
                ELSE [ld EXCEPT !.pc[t] = "raised", !.failed = TRUE]
    /\ UNCHANGED <<authVars, ragVars, chunkVars, fj, cs, rt>>

\* _embedding_model = <the instance>
LoadStore(t) ==
    /\ ld.pc[t] = "store"
    /\ ld' = [ld EXCEPT !.pc[t] = "return", !.global = ld.local[t]]
    /\ UNCHANGED <<authVars, ragVars, chunkVars, fj, cs, rt>>

\* return _embedding_model
LoadReturn(t) ==
    /\ ld.pc[t] = "return"
    /\ ld' = [ld EXCEPT !.pc[t] = "done", !.got[t] = ld.global]
    /\ UNCHANGED <<authVars, ragVars, chunkVars, fj, cs, rt>>

NextLoad ==
    \E t \in Threads :
        LoadCall(t) \/ LoadTest(t) \/ LoadModel(t) \/ LoadStore(t) \/ LoadReturn(t)

SpecLoad == InitRag /\ [][NextLoad]_vars

----------------------------------------------------------------------------
(* fetch_jwks called from several threads *)

\* A cache that keeps the result of whichever call finishes last.
CacheStore_overwrite(cache, jwks) == [full |-> TRUE, jwks |-> jwks]

\* lru_cache after the wrapped call: the result is stored unless the key was
\* added while the call ran.
CacheStore(cache, jwks) ==
    IF cache.full THEN cache ELSE [full |-> TRUE, jwks |-> jwks]

\* A thread calls fetch_jwks(); late is history: the cache was filled already.
FetchCall(t) ==
    /\ fj.pc[t] \in {"idle", "done", "raised"}
    /\ fj' = [fj EXCEPT !.pc[t] = "lookup", !.local[t] = << >>,
                        !.got[t] = << >>, !.hit[t] = FALSE,
                        !.requested[t] = FALSE, !.late[t] = jwks_cache.full]
    /\ UNCHANGED <<authVars, ragVars, chunkVars, ld, cs, rt>>

\* lru_cache looks the key up: a hit returns the stored key set.
FetchLookup(t) ==
    /\ fj.pc[t] = "lookup"
    /\ fj' = IF jwks_cache.full
             THEN [fj EXCEPT !.pc[t] = "done", !.hit[t] = TRUE,
                             !.got[t] = jwks_cache.jwks]
             ELSE [fj EXCEPT !.pc[t] = "get"]
    /\ UNCHANGED <<authVars, ragVars, chunkVars, ld, cs, rt>>

\* The body of fetch_jwks: get_jwks_url, requests.get, raise_for_status, json.
\* Nothing is held while the request is out: other threads take their steps.
FetchGet(t) ==
    /\ fj.pc[t] = "get"
    /\ \E net \in {"ok", "error"} :
          LET r == fetch_jwks_unmemoized(supabase_url, jwks_cache, net,
                                         Published(provider))
          IN  fj' = IF r.ok
                    THEN [fj EXCEPT !.pc[t] = "store", !.local[t] = r.jwks,
                                    !.requested[t] = r.requested]
                    ELSE [fj EXCEPT !.pc[t] = "raised",
                                    !.requested[t] = r.requested]
    /\ UNCHANGED <<authVars, ragVars, chunkVars, ld, cs, rt>>

\* lru_cache stores the result and the call returns its own result.
FetchStore(t) ==
    /\ fj.pc[t] = "store"
    /\ jwks_cache' = CacheStore(jwks_cache, fj.local[t])
    /\ firstFetched' = IF firstFetched.full THEN firstFetched
                       ELSE [full |-> TRUE, jwks |-> fj.local[t]]
    /\ fj' = [fj EXCEPT !.pc[t] = "done", !.got[t] = fj.local[t]]
    /\ UNCHANGED <<supabase_url, provider, pc, request, result, fetchRec,
                   refusal>>
    /\ UNCHANGED <<ragVars, chunkVars, ld, cs, rt>>

NextFetch ==
    \/ \E t \in Threads :
          FetchCall(t) \/ FetchLookup(t) \/ FetchGet(t) \/ FetchStore(t)
    \/ Rotate

SpecFetch == Init /\ [][NextFetch]_vars

----------------------------------------------------------------------------
(* _call_ai_with_retry *)

MAX_RETRIES == 3
RETRY_DELAY == 1

\* The markers whose presence in str(e) makes an error retryable.
RetryCodes == {"529", "overloaded", "rate_limit", "500", "503"}

\* An error message is modelled by the set of markers that occur in it.
ErrorMessages == {{"529"}, {"overloaded"}, {"rate_limit"}, {"500"}, {"503"},
                  {"401"}, {"401", "503"}, {"list index out of range"}}

\* any(code in error_msg for code in [...])
IsRetryable(error_msg) == error_msg \cap RetryCodes # {}

\* A loop that tries again after every error.
CanRetry_any(error_msg, attempt) == attempt < MAX_RETRIES - 1

\* if is_retryable and attempt < MAX_RETRIES - 1
CanRetry(error_msg, attempt) ==
    IsRetryable(error_msg) /\ attempt < MAX_RETRIES - 1

RECURSIVE Pow2(_)
Pow2(n) == IF n = 0 THEN 1 ELSE 2 * Pow2(n - 1)

\* The call begins; without a client it returns the fallback message at once.
RetryCall ==
    /\ rt.pc = "idle"
    /\ \E client \in BOOLEAN :
          rt' = IF client
                THEN [rt EXCEPT !.pc = "attempt", !.client = TRUE]
                ELSE [rt EXCEPT !.pc = "returned", !.out = "fallback"]
    /\ UNCHANGED <<authVars, ragVars, chunkVars, ld, fj, cs>>

\* One pass of "for attempt in range(MAX_RETRIES)": client.messages.create
\* answers with text, or it (or reading the answer) raises an Exception.
\* log is history: the outcome of every call made; slept: every wait begun.
RetryAttempt ==
    /\ rt.pc = "attempt"
    /\ IF rt.attempt >= MAX_RETRIES
       THEN rt' = [rt EXCEPT !.pc = "returned", !.out = "fallback"]
       ELSE \/ rt' = [rt EXCEPT !.pc = "returned", !.out = "text",
                                !.calls = @ + 1,
                                !.log = Append(@, [ok |-> TRUE, msg |-> {}])]
            \/ \E e \in ErrorMessages :
                  LET r == [rt EXCEPT !.calls = @ + 1,
                                      !.log = Append(@, [ok |-> FALSE, msg |-> e])]
                  IN  rt' = IF CanRetry(e, rt.attempt)
                            THEN [r EXCEPT !.pc = "sleep",
                                           !.slept = Append(@, RETRY_DELAY * Pow2(rt.attempt))]
                            ELSE [r EXCEPT !.pc = "returned", !.out = "fallback"]
    /\ UNCHANGED <<authVars, ragVars, chunkVars, ld, fj, cs>>

\* await asyncio.sleep(wait_time) is over; continue with the next attempt.
RetryWake ==
    /\ rt.pc = "sleep"
    /\ rt' = [rt EXCEPT !.pc = "attempt", !.attempt = @ + 1]
    /\ UNCHANGED <<authVars, ragVars, chunkVars, ld, fj, cs>>

NextRetry == RetryCall \/ RetryAttempt \/ RetryWake

\* The event loop runs the coroutine: a call to the model ends, a sleep ends.
SpecRetry == InitRag /\ [][NextRetry]_vars /\ WF_vars(NextRetry)

----------------------------------------------------------------------------
(* chat_with_csv on one session, called from several tasks of the event loop *)

\* Bound: the chat_with_csv calls started in a run.
MaxChats == 3

\* A CsvChatMessage; by is history: the task whose call appended it (0 for
\* create_csv_session).
Message(role, by) == [role |-> role, by |-> by]

\* create_csv_session: the session is stored with its first exchange.
CreateSession ==
    /\ ~cs.exists
    /\ cs' = [cs EXCEPT !.exists = TRUE,
                        !.history = <<Message("user", 0), Message("assistant", 0)>>]
    /\ UNCHANGED <<authVars, ragVars, chunkVars, ld, fj, rt>>

\* csv_sessions.get(session_id) finds nothing: ValueError, nothing is touched.
ChatMissing(t) ==
    /\ ~cs.exists
    /\ cs.pc[t] = "idle"
    /\ cs' = [cs EXCEPT !.pc[t] = "ValueError"]
    /\ UNCHANGED <<authVars, ragVars, chunkVars, ld, fj, rt>>

\* The call runs on from an attempt of _call_ai_with_retry until it suspends
\* or returns: a retryable error before the last attempt suspends the task in
\* asyncio.sleep; anything else gives the analysis (text, fallback or a plot
\* message), the assistant message is appended and the call returns.
ChatRun(c, t, attempt) ==
    {[c EXCEPT !.history = Append(@, Message("assistant", t)),
               !.pc[t] = "idle", !.attempt[t] = 0]}
    \cup
    {[c EXCEPT !.pc[t] = "sleep", !.attempt[t] = attempt] :
        e \in {m \in ErrorMessages : CanRetry(m, attempt)}}

\* chat_with_csv up to its first suspension: the user message is appended,
\* then the analysis is awaited.
ChatBegin(t) ==
    /\ cs.exists
    /\ cs.pc[t] = "idle"
    /\ cs.calls < MaxChats
    /\ cs' \in ChatRun([cs EXCEPT !.history = Append(@, Message("user", t)),
                                  !.calls = @ + 1], t, 0)
    /\ UNCHANGED <<authVars, ragVars, chunkVars, ld, fj, rt>>

\* The sleep is over: the next attempt is made.
ChatWake(t) ==
    /\ cs.pc[t] = "sleep"
    /\ cs' \in ChatRun(cs, t, cs.attempt[t] + 1)
    /\ UNCHANGED <<authVars, ragVars, chunkVars, ld, fj, rt>>

NextCsv ==
    \/ CreateSession
    \/ \E t \in Threads : ChatMissing(t) \/ ChatBegin(t) \/ ChatWake(t)

SpecCsv == InitRag /\ [][NextCsv]_vars

----------------------------------------------------------------------------
(* Properties of the token verifier *)

KeyRecords(jwks) == {jwks[i] : i \in 1 .. Len(jwks)}
Supported(rec) == StartsWithRS(rec.alg) \/ StartsWithES(rec.alg)

\* The token names rec and carries rec's algorithm in its header.
IssuedUnder(t, rec) == t.wf /\ t.kid = rec.kid /\ t.alg = rec.alg

\* A token request has been served with the key set in the cache.
Served == /\ pc = "done"
          /\ request.header = "bearer"
          /\ supabase_url # ""
          /\ jwks_cache.full

ValidToken(t, jwks) ==
    \E rec \in KeyRecords(jwks) :
        /\ Supported(rec)
        /\ IssuedUnder(t, rec)
        /\ t.sig = rec.mat
        /\ t.exp.present /\ t.exp.v > Now
        /\ t.iss = get_issuer(supabase_url)
        /\ t.aud = SUPABASE_JWT_AUD
        /\ t.sub \notin {Absent, ""}

\* C1: a valid token (signature, expiry, issuer and audience valid, non-empty
\* sub) signed with an RSA or elliptic-curve key of the cached key set is
\* accepted by every entry point, and the identity returned is its sub claim.
C1_ValidTokenAccepted ==
    (Served /\ ValidToken(request.token, jwks_cache.jwks))
        => result = Return(request.token.sub)

C1_Witness ==
    /\ Served /\ ValidToken(request.token, jwks_cache.jwks)
    /\ request.entry = "get_current_user"
    /\ fetchRec.cachedBefore
    /\ request.token.alg = "ES256"
    /\ result.user_id = "u2"

\* C5: a token whose kid is in no record of the key set is rejected with the
\* response of the unknown-key check.
C5_UnknownKeyKind ==
    (/\ Served
     /\ request.token.wf
     /\ request.token.kid # Absent
     /\ \A rec \in KeyRecords(jwks_cache.jwks) : rec.kid # request.token.kid)
        => result = Raise(401, D_KeyNotFound)

\* C6: a token whose signature verifies under its resolved key and whose exp
\* is in the past is rejected as expired, whatever its issuer, audience and
\* subject are.
C6_ExpiredRejected ==
    (/\ Served
     /\ \E rec \in KeyRecords(jwks_cache.jwks) :
           Supported(rec) /\ IssuedUnder(request.token, rec)
                          /\ request.token.sig = rec.mat
     /\ request.token.exp.present
     /\ request.token.exp.v < Now)
        => result = Raise(401, D_Expired)

C6_Witness ==
    /\ Served
    /\ ValidToken([request.token EXCEPT !.exp = [present |-> TRUE, v |-> Now + 1]],
                  jwks_cache.jwks)
    /\ request.token.exp.present
    /\ request.token.exp.v < Now
    /\ result = Raise(401, D_Expired)

\* C7: a token whose signature does not verify under the key its kid
\* resolves to is never accepted, and when its header is the one it was
\* issued with it is rejected by the invalid-token clause, which is where
\* PyJWT's InvalidSignatureError arrives.
C7_TamperedRejected ==
    \A rec \in KeyRecords(jwks_cache.jwks) :
        (/\ Served
         /\ Supported(rec)
         /\ request.token.wf
         /\ request.token.kid = rec.kid
         /\ request.token.sig # rec.mat)
            => /\ result.status = 401
               /\ result.user_id = NoReturn
               /\ request.token.alg = rec.alg => result = Raise(401, D_Invalid)

C7_Witness ==
    /\ Served
    /\ ValidToken([request.token EXCEPT !.sig = "m1"], jwks_cache.jwks)
    /\ request.token.sig = "nomatch"
    /\ result = Raise(401, D_Invalid)

\* C8: no entry point accepts a token whose sub claim is absent or empty.
C8_EmptySubjectRejected ==
    (pc = "done" /\ request.header = "bearer"
                 /\ request.token.sub \in {Absent, ""})
        => result.status # 200

\* C9: every rejected token gets the response the first rejected token got.
C9_SingleRefusal ==
    (pc = "done" /\ request.header = "bearer" /\ result.status = 401
                 /\ refusal.status = 401)
        => result = refusal

\* C10: a call of fetch_jwks asks the key endpoint exactly when no earlier
\* call has succeeded; after a success every call returns the key set of the
\* first success; a failed call leaves nothing in the cache.
C10_FetchMemoized ==
    (pc = "done" /\ fetchRec.called)
        => /\ fetchRec.requested <=> ~fetchRec.succeededBefore
           /\ fetchRec.succeededBefore
                 => fetchRec.ok /\ fetchRec.jwks = firstFetched.jwks
           /\ (~fetchRec.ok) => ~jwks_cache.full
           /\ (fetchRec.ok /\ fetchRec.requested)
                 => fetchRec.jwks = Published(provider)

C10_Witness ==
    /\ pc = "done"
    /\ fetchRec.called
    /\ fetchRec.succeededBefore
    /\ ~fetchRec.requested
    /\ provider = "B"
    /\ fetchRec.jwks = KeySetA

\* C11: when the key endpoint cannot be reached during a verification, the
\* caller gets the 500 response that fetch_jwks raises, not a 401.
C11_FetchFailureIs5xx ==
    (pc = "done" /\ request.header = "bearer" /\ fetchRec.called
                 /\ ~fetchRec.ok)
        => result.status = 500

\* The first check, in the order header parse, key resolution, signature,
\* expiry, issuer, audience, subject, that token t does not pass against
\* the key set jwks; "none" when it passes them all.
FirstFailure(t, jwks, issuer, audience) ==
    LET M == {rec \in KeyRecords(jwks) : rec.kid = t.kid /\ Supported(rec)}
    IN  IF ~t.wf THEN "header"
        ELSE IF t.kid = Absent \/ M = {} THEN "key"
        ELSE IF \A rec \in M :
                   \/ ~(\/ StartsWithRS(rec.alg) /\ t.alg \in RSAFamily
                        \/ StartsWithES(rec.alg) /\ t.alg \in ECFamily)
                   \/ t.sig # rec.mat
             THEN "signature"
        ELSE IF t.exp.present /\ t.exp.v <= Now THEN "expiry"
        ELSE IF t.iss # issuer THEN "issuer"
        ELSE IF t.aud # audience THEN "audience"
        ELSE IF t.sub \in {Absent, ""} THEN "subject"
        ELSE "none"

\* The responses with which the code reports the failure of each check.
StageResponses(stage) ==
    IF stage \in {"header", "key"} THEN {Raise(401, D_Failed)}
    ELSE IF stage = "signature" THEN {Raise(401, D_Invalid), Raise(401, D_Failed)}
    ELSE IF stage = "expiry" THEN {Raise(401, D_Expired)}
    ELSE IF stage = "issuer" THEN {Raise(401, D_Issuer), Raise(401, D_Invalid)}
    ELSE IF stage = "audience" THEN {Raise(401, D_Audience), Raise(401, D_Invalid)}
    ELSE {Raise(401, D_Failed), Raise(401, D_NoUser)}

\* C21: a token is rejected with the response of the first check it fails in
\* the fixed order, whatever later checks it would fail too, and it is
\* accepted only when it passes every check.
C21_LinearOrder ==
    Served =>
        LET stage == FirstFailure(request.token, jwks_cache.jwks,
                                  get_issuer(supabase_url), SUPABASE_JWT_AUD)
        IN  IF stage = "none" THEN result.status = 200
            ELSE result \in StageResponses(stage)

C23_ResolveExactly ==
    Served =>
        LET t == request.token
            M == {rec \in KeyRecords(jwks_cache.jwks) : rec.kid = t.kid}
        IN  /\ fetchRec.key # NoKey
                 <=> (t.wf /\ t.kid # Absent /\ \E rec \in M : Supported(rec))
            /\ fetchRec.key # NoKey
                 => \E rec \in M :
                       /\ fetchRec.key.mat = rec.mat
                       /\ StartsWithRS(rec.alg) => fetchRec.key.kty = "RSA"
                       /\ StartsWithES(rec.alg) => fetchRec.key.kty = "EC"

C23_Witness ==
    /\ Served
    /\ request.token.kid = "k3"
    /\ fetchRec.called
    /\ fetchRec.ok
    /\ fetchRec.key = NoKey

\* C24: the cache entry is the key set of the first successful fetch for good,
\* and a token whose kid is not in that set is rejected, also after the
\* provider has published a set that holds it.
C24_RotationNeverObserved ==
    /\ jwks_cache = firstFetched
    /\ (pc = "done" /\ request.header = "bearer" /\ fetchRec.succeededBefore
          /\ \A rec \in KeyRecords(firstFetched.jwks) : rec.kid # request.token.kid)
         => result.status = 401

C24_Witness ==
    /\ pc = "done"
    /\ provider = "B"
    /\ fetchRec.succeededBefore
    /\ firstFetched.jwks = KeySetA
    /\ request.token = [GoodToken EXCEPT !.kid = "k2", !.alg = "ES256", !.sig = "m2"]
    /\ result.status = 401

----------------------------------------------------------------------------
(* Properties of the vector store gateway *)

Hits == {ragOut.hits[i] : i \in 1 .. Len(ragOut.hits)}

\* C2: a search by one owner returns no point whose stored payload names
\* another owner, whatever was upserted before and whatever the query is.
C2_TenantIsolation ==
    (ragOut.op = "search" /\ ragOut.status = "returned")
        => /\ \A p \in Hits : p.payload["user_id"] = ragOut.user_id
           /\ Len(ragOut.results) = Len(ragOut.hits)

C2_Witness ==
    /\ ragOut.op = "search" /\ ragOut.status = "returned"
    /\ Hits # {}
    /\ \E p \in Hits, q \in points :
          /\ q.payload["user_id"] # ragOut.user_id
          /\ q.payload["file_id"] = p.payload["file_id"]
          /\ q.call.user_id # p.call.user_id

\* C3: a search by one owner returns no point written by an upsert call
\* made with another owner_id.
C3_NoForeignPoint ==
    (ragOut.op = "search" /\ ragOut.status = "returned")
        => \A p \in Hits : p.call.user_id = ragOut.user_id

\* C4: in every stored point the four reserved payload keys hold the
\* arguments of the upsert call that wrote it.
C4_ReservedKeysWin ==
    \A p \in points : \A k \in ReservedKeys : p.payload[k] = p.call[k]


----------------------------------------------------------------------------
(* Properties of delete_user_vectors and of the failure paths *)

\* The points a delete for (user_id, file_id) is specified to remove: the
\* owner's, narrowed to the document whenever one is supplied.
Targeted(p, user_id, file_id) ==
    /\ p.payload["user_id"] = user_id
    /\ file_id # Absent => p.payload["file_id"] = file_id

\* C15: a delete that succeeded removed exactly the targeted points and left
\* every other point as it was.
C15_DeleteFrame ==
    (ragOut.op = "delete" /\ ragOut.flag)
        => points = {p \in ragOut.before :
                        ~Targeted(p, ragOut.user_id, ragOut.file_id)}

\* C16: with the index answering, a delete succeeds; when no point is
\* targeted it changes nothing; and the same delete once more changes nothing.
C16_DeleteIdempotent ==
    (ragOut.op = "delete" /\ ragOut.net = "ok")
        => /\ ragOut.status = "returned" /\ ragOut.flag
           /\ (\A p \in ragOut.before :
                  ~Targeted(p, ragOut.user_id, ragOut.file_id))
                 => points = ragOut.before
           /\ delete_user_vectors(ragOut.user_id, ragOut.file_id, points,
                                  "ok").points = points

\* C17: when the index fails during an upsert, a search or a delete, the
\* caller gets a raised error, never a normal return.
C17_StoreFailureRaised ==
    (ragOut.op # "none" /\ ragOut.net \in {"error", "late_error"})
        => ragOut.status = "raised" /\ ragOut.error = "StoreError"

\* C18: when the embedding stage of upsert_document fails, the index is not
\* asked, nothing is written, and the caller gets the loader's own error.
C18_FailFast ==
    (ragOut.op = "upsert" /\ ragOut.embed = "fail")
        => /\ ragOut.status = "raised"
           /\ ragOut.error = "ModelLoadError"
           /\ ragOut.net = "none"
           /\ ragOut.written = {}
           /\ points = ragOut.before

C18_Witness ==
    /\ ragOut.op = "upsert"
    /\ ragOut.embed = "fail"
    /\ ragOut.status = "raised"
    /\ ragOut.error = "ModelLoadError"
    /\ embedding_model = "None"
    /\ points = ragOut.before

----------------------------------------------------------------------------
(* Properties of the chunker *)

\* The configuration the chunker is specified for.
ValidConfig == ck.chunk_size > ck.overlap /\ ck.overlap >= 0

\* C12: a text no longer than chunk_size comes back as the one chunk [text],
\* unchanged (not trimmed), whatever the overlap.
C12_ShortTextUnchanged ==
    (ck.pc = "returned" /\ Len(ck.text) <= ck.chunk_size)
        => ck.chunks = <<ck.text>>

C12_Witness ==
    /\ ck.pc = "returned"
    /\ Len(ck.text) = ck.chunk_size
    /\ ck.text[1] = " "
    /\ ck.overlap > 0
    /\ ck.chunks = <<ck.text>>

\* The part of chunk i that is not the overlap with chunk i - 1.
Fresh(chunks, overlap, i) ==
    IF i = 1 THEN chunks[1]
    ELSE SubSeq(chunks[i], overlap + 1, Len(chunks[i]))

RECURSIVE Reconstruct(_, _, _)
Reconstruct(chunks, overlap, i) ==
    IF i > Len(chunks) THEN << >>
    ELSE Fresh(chunks, overlap, i) \o Reconstruct(chunks, overlap, i + 1)

\* C13: under a valid configuration the chunks returned, without their
\* overlaps, concatenate to the text.
C13_CoverageReconstructs ==
    (ck.pc = "returned" /\ ValidConfig)
        => Reconstruct(ck.chunks, ck.overlap, 1) = ck.text

\* C14: a call with overlap >= chunk_size fails with InvalidChunkConfig
\* before any chunk is produced: it neither loops nor returns.
C14_InvalidConfigRejected ==
    (ck.pc # "none" /\ ck.overlap >= ck.chunk_size)
        => /\ ck.pc \in {"called", "InvalidChunkConfig"}
           /\ ck.chunks = << >>

\* C20: under a valid configuration every loop iteration leaves start
\* strictly greater than it found it.
C20_StartAdvances ==
    [][(ck.pc = "loop" /\ ck'.pc = "loop" /\ ValidConfig /\ ck' # ck)
          => ck'.start > ck.start]_vars


----------------------------------------------------------------------------
(* Properties of indexing followed by search *)

\* upsert_document returned for user u1, file d1 and a document of DocLen
\* characters.
IndexedDoc ==
    /\ ragOut.op = "upsert"
    /\ ragOut.status = "returned"
    /\ ragOut.user_id = "u1"
    /\ ragOut.file_id = "d1"
    /\ Len(ragOut.text) = DocLen

\* The call reports 3 chunks and wrote 3 points with chunk_index 0, 1, 2.
ThreeChunks ==
    /\ ragOut.chunk_count = 3
    /\ Cardinality(ragOut.written) = 3
    /\ {p.payload["chunk_index"] : p \in {q \in points : q.id \in ragOut.written}}
          = {0, 1, 2}

\* A search by u2 returned no point of u1's document d1.
NothingOfU1ForU2 ==
    (ragOut.op = "search" /\ ragOut.status = "returned" /\ ragOut.user_id = "u2")
        => \A i \in 1 .. Len(ragOut.hits) :
              ~(ragOut.hits[i].call.user_id = "u1"
                /\ ragOut.hits[i].call.file_id = "d1")

\* The text holds no space, or no CHUNK_OVERLAP + 1 consecutive characters
\* of it are free of spaces.
ShortWords(text) ==
    \/ \A i \in 1 .. Len(text) : text[i] # " "
    \/ \A i \in 1 .. (Len(text) - CHUNK_OVERLAP) :
          \E j \in i .. (i + CHUNK_OVERLAP) : text[j] = " "

\* C19 as stated: every DocLen-character document indexed for u1/d1 gives
\* exactly 3 chunks, indexes 0..2, and u2's searches return none of them.
C19_ThreeChunksIsolated ==
    /\ IndexedDoc => ThreeChunks
    /\ NothingOfU1ForU2

\* C19 amended: the same for documents without long runs of non-space
\* characters.
C19_ThreeChunksShortWords ==
    /\ (IndexedDoc /\ ShortWords(ragOut.text)) => ThreeChunks
    /\ NothingOfU1ForU2

\* u1's document, cut at spaces, is in the index in 3 chunks and u2 has
\* searched.
C19_Witness ==
    /\ ragOut.op = "search" /\ ragOut.status = "returned" /\ ragOut.user_id = "u2"
    /\ Len(ragOut.hits) = 0
    /\ {p.call.chunk_index : p \in {q \in points : /\ q.call.user_id = "u1"
                                                   /\ q.call.file_id = "d1"}}
          = {0, 1, 2}
    /\ \E p \in points : \E i \in 1 .. Len(p.call.text) : p.call.text[i] = " "


----------------------------------------------------------------------------
(* Properties of the embedding provider under concurrent calls *)

\* C25: the callers that have returned all hold the same instance, the one
\* the global retains.
C25_OneSharedInstance ==
    \A t \in Threads :
        ld.pc[t] = "done" => ld.got[t] = ld.global

\* C26: a call that begins after a load has failed makes no load attempt and
\* gets no model.
C26_LoadFailureFatal ==
    \A t \in Threads :
        ld.after[t] => ld.pc[t] \in {"test", "raised"}


----------------------------------------------------------------------------
(* Properties of the key-set cache under concurrent calls *)

\* C27: threads that miss the empty cache together each make their own
\* request and none waits for another; the cache keeps one key set, the first
\* one stored, and a call that begins once the cache is filled returns that
\* set without a request.
C27_OneKeySetCached ==
    /\ jwks_cache = firstFetched
    /\ \A t \in Threads :
          /\ fj.pc[t] = "get" => ENABLED FetchGet(t)
          /\ fj.pc[t] = "done" =>
                /\ jwks_cache.full
                /\ fj.hit[t] => ~fj.requested[t] /\ fj.got[t] = jwks_cache.jwks
                /\ fj.late[t] => fj.hit[t]

C27_Witness ==
    /\ \A t \in Threads : fj.pc[t] = "done"
    /\ fj.requested[1] /\ fj.got[1] = KeySetA
    /\ fj.requested[2] /\ fj.got[2] = KeySetB
    /\ fj.late[3] /\ fj.hit[3] /\ fj.got[3] = KeySetA
    /\ jwks_cache = [full |-> TRUE, jwks |-> KeySetA]


----------------------------------------------------------------------------
(* Frame of upsert_document *)

\* C28: an upsert that returns has added one point per chunk, each under an
\* id no earlier point ever had, has left every earlier point as it was
\* (those of the same owner and document included), and reports as
\* chunk_count the number of points it wrote.
C28_UpsertOnlyAdds ==
    (ragOut.op = "upsert" /\ ragOut.status = "returned") =>
        LET new == points \ ragOut.before
            chunks == chunk_text(ragOut.text, CHUNK_SIZE, CHUNK_OVERLAP).chunks
        IN  /\ ragOut.before \subseteq points
            /\ ragOut.chunk_count = Len(chunks)
            /\ Cardinality(new) = ragOut.chunk_count
            /\ Cardinality(ragOut.written) = ragOut.chunk_count
            /\ {p.id : p \in new} = ragOut.written
            /\ \A p \in new : p.id > nextId - ragOut.chunk_count /\ p.id <= nextId
            /\ \A p \in new, q \in ragOut.before : p.id # q.id
            /\ \A i \in 0 .. (Len(chunks) - 1) :
                  Cardinality({p \in new : /\ p.call.chunk_index = i
                                           /\ p.call.text = chunks[i + 1]
                                           /\ p.call.user_id = ragOut.user_id
                                           /\ p.call.file_id = ragOut.file_id}) = 1

\* The same owner and document indexed a second time: both sets are stored.
C28_Witness ==
    /\ ragOut.op = "upsert" /\ ragOut.status = "returned"
    /\ ragOut.chunk_count >= 3
    /\ Cardinality({p \in ragOut.before : /\ p.call.user_id = ragOut.user_id
                                          /\ p.call.file_id = ragOut.file_id})
          >= 3
    /\ Cardinality(points) = Cardinality(ragOut.before) + ragOut.chunk_count


----------------------------------------------------------------------------
(* Properties of _call_ai_with_retry *)

RetryBounded ==
    /\ rt.calls = Len(rt.log) /\ rt.calls <= MAX_RETRIES
    /\ \A i \in 1 .. (Len(rt.log) - 1) : ~rt.log[i].ok /\ IsRetryable(rt.log[i].msg)
    /\ \A i \in 1 .. Len(rt.slept) : rt.slept[i] = RETRY_DELAY * Pow2(i - 1)
    /\ rt.pc = "sleep" => Len(rt.slept) = rt.calls /\ rt.calls < MAX_RETRIES
    /\ rt.pc = "attempt" => Len(rt.slept) = rt.calls
    /\ rt.pc = "returned" =>
          /\ rt.out \in {"text", "fallback"}
          /\ Len(rt.slept) = IF rt.calls = 0 THEN 0 ELSE rt.calls - 1
          /\ rt.out = "text" <=> (rt.calls > 0 /\ rt.log[rt.calls].ok)
          /\ rt.out = "fallback" <=> \A i \in 1 .. Len(rt.log) : ~rt.log[i].ok

----------------------------------------------------------------------------
(* Properties of the CSV chat history *)

Alternates(h) ==
    /\ Len(h) % 2 = 0
    /\ \A i \in 1 .. Len(h) :
          h[i].role = IF i % 2 = 1 THEN "user" ELSE "assistant"

\* C29: whenever no chat_with_csv call is in progress on the session, its
\* history is user, assistant, user, assistant, ..., ending with an
\* assistant message.
C29_HistoryAlternates ==
    (cs.exists /\ \A t \in Threads : cs.pc[t] # "sleep") =>
        Alternates(cs.history)

====
